---- MODULE Spec2Model ----
(***************************************************************************)
(* A model of the capture / upload / poll client of hyeok90/3D_inter:      *)
(*   src/src/lib/api.ts   uploadVideo and fetchConvertedModel, in the      *)
(*                        direct and in the pre-signed variant             *)
(*   src/src/app/page.tsx the page component: password gate, camera,       *)
(*                        recorder, countdown, review, confirm, viewer     *)
(*   src/src/app/api/static/[...slug]/route.ts                             *)
(*                        the route that serves files of the project root  *)
(* Every await of the code is a point where other events may interleave;   *)
(* the synchronous stretch between two awaits, with the microtasks that    *)
(* follow it, is one action.  The functions of the code are operators from *)
(* a state record to a state record, composed as the code calls them.      *)
(***************************************************************************)
EXTENDS Integers, Sequences, FiniteSets, TLC

VARIABLES
    \* ---- deployment and browser (fixed at load) ----
    variant,          \* which api.ts is deployed: "direct" | "presigned"
    apiBaseSet,       \* API_BASE_URL is a non-empty string
    secureContext,    \* window.isSecureContext
    hasGetUserMedia,  \* navigator.mediaDevices?.getUserMedia exists
    \* ---- one call of uploadVideo (api.ts) ----
    up,
    \* ---- one call of fetchConvertedModel (api.ts) ----
    poll,
    \* ---- HomePage (page.tsx): its state, its refs, and the browser objects
    \*      it created (streams, recorders, intervals, timeouts, promises) ----
    page,
    \* ---- one request to GET /api/static/[...slug] (route.ts), on the server ----
    route

envVars == <<variant, apiBaseSet, secureContext, hasGetUserMedia>>
vars    == <<envVars, up, poll, page, route>>

(***************************************************************************)
(* Program constants                                                       *)
(***************************************************************************)
MAX_POLLING_ATTEMPTS == 60
MAX_DURATION_MS == 60000
TICK_MS == 1000

(***************************************************************************)
(* Bounds of the model                                                     *)
(***************************************************************************)
\* size in bytes of the largest recording or selected file
MaxBlobSize == 1
\* streams that can be live at once (the device refuses a further one)
MaxStreams == 2
\* MediaRecorder objects that are active, stopping or still hold an interval
MaxRecorders == 2
\* openCamera calls suspended at getUserMedia, the one of handleConfirm aside
MaxPendingOpens == 2
\* auto-start requests (the 50 ms timeouts) outstanding
MaxAutoStart == 1
\* non-terminal status responses the server gives one job while the page runs
MaxProcessing == 1
\* countdown ticks of one recording that the session model follows
MaxTicks == 1
\* invocations of the viewer's onLoaded callback that are counted
MaxLoaded == 2

(***************************************************************************)
(* Values                                                                  *)
(***************************************************************************)
Variants == {"direct", "presigned"}

\* a Blob: where it came from and its size in bytes; NoBlob is null
NoBlob == [source |-> "none", size |-> 0]
Blobs  == [source : {"recorded", "uploaded"}, size : 0..MaxBlobSize]

JobIds == {"abc", "xyz"}

\* model_info of a status response; NoModel is null
NoModel    == [url |-> "null", type |-> "null", label |-> "null"]
ModelInfos == { [url |-> "/api/download-result/abc", type |-> "obj", label |-> "Demo"],
                [url |-> "/x.obj", type |-> "undefined", label |-> "L"] }

HttpErrors == {404, 500}

\* the responses of GET /api/result/{id}
NoResponse == [ok |-> FALSE, http |-> 0, status |-> "none", model_info |-> NoModel,
               error |-> "undefined"]
StatusResponses ==
    { [ok |-> FALSE, http |-> h, status |-> "none", model_info |-> NoModel,
       error |-> "undefined"] : h \in HttpErrors }
    \cup { [ok |-> TRUE, http |-> 200, status |-> "processing", model_info |-> NoModel,
            error |-> "undefined"] }
    \cup { [ok |-> TRUE, http |-> 200, status |-> "completed", model_info |-> m,
            error |-> "undefined"] : m \in ModelInfos \cup {NoModel} }
    \cup { [ok |-> TRUE, http |-> 200, status |-> "failed", model_info |-> NoModel,
            error |-> e] : e \in {"undefined", "bad video"} }

IsProcessing(r) == r.ok /\ r.status = "processing"

\* what an async function of api.ts settles with
NoResult == [kind |-> "none", step |-> "none", http |-> 0, detail |-> "none",
             uploadId |-> "none", model |-> NoModel]
Returned(id, m) == [NoResult EXCEPT !.kind = "ok", !.uploadId = id, !.model = m]
Thrown(k, s, h, d) == [NoResult EXCEPT !.kind = k, !.step = s, !.http = h, !.detail = d]

(***************************************************************************)
(* uploadVideo                                                             *)
(*   pc: "idle" | the request in flight | "returned" | "threw"             *)
(*   blob: the argument; requests: the requests issued so far, in order    *)
(***************************************************************************)
IdleUpload == [pc |-> "idle", blob |-> NoBlob, requests |-> <<>>, result |-> NoResult]

\* !blob || blob.size === 0
BlobMissing_SizeUnchecked(blob) == blob = NoBlob
BlobMissing(blob) == blob = NoBlob \/ blob.size = 0

\* the call up to its first await
UploadVideoEnter(blob) ==
    IF BlobMissing(blob)
    THEN [pc |-> "threw", blob |-> blob, requests |-> <<>>,
          result |-> Thrown("EmptyArtifact", "none", 0, "The video to convert is missing.")]
    ELSE IF variant = "presigned" /\ ~apiBaseSet
    THEN [pc |-> "threw", blob |-> blob, requests |-> <<>>,
          result |-> Thrown("NoApiBase", "none", 0, "API_BASE_URL is not set")]
    ELSE IF variant = "presigned"
    THEN [pc |-> "upload-url", blob |-> blob, requests |-> <<"POST /api/upload-url">>,
          result |-> NoResult]
    ELSE [pc |-> "upload", blob |-> blob, requests |-> <<"POST /api/upload">>,
          result |-> NoResult]

UploadInFlight(u) == u.pc \in {"upload-url", "put", "start-conversion", "upload"}

\* the response to the request in flight, up to the next await or the end
UploadVideoResume(u, ok, http, id) ==
    CASE u.pc = "upload-url" ->
           IF ok
           THEN [u EXCEPT !.pc = "put", !.requests = Append(@, "PUT uploadUrl")]
           ELSE [u EXCEPT !.pc = "threw",
                          !.result = Thrown("TransportError", "upload-url", 0,
                                            "Failed to get a pre-signed URL for upload.")]
      [] u.pc = "put" ->
           IF ok
           THEN [u EXCEPT !.pc = "start-conversion",
                          !.requests = Append(@, "POST /api/start-conversion")]
           ELSE [u EXCEPT !.pc = "threw",
                          !.result = Thrown("TransportError", "put", 0,
                                            "Failed to upload file to Blob storage.")]
      [] u.pc = "start-conversion" ->
           IF ok
           THEN [u EXCEPT !.pc = "returned", !.result = Returned(id, NoModel)]
           ELSE [u EXCEPT !.pc = "threw",
                          !.result = Thrown("TransportError", "start-conversion", http,
                                            "Failed to start conversion: status text")]
      [] u.pc = "upload" ->
           IF ok
           THEN [u EXCEPT !.pc = "returned", !.result = Returned(id, NoModel)]
           ELSE [u EXCEPT !.pc = "threw",
                          !.result = Thrown("TransportError", "upload", http,
                                            "Failed to upload video: status text")]

(***************************************************************************)
(* fetchConvertedModel                                                     *)
(*   pc: "idle" | "fetching" | "sleeping" | "returned" | "threw"           *)
(*   uploadId: the argument; i: the loop variable; queries / responses: status queries issued and  *)
(*   status responses received; last: the last response;                   *)
(*   onlyProcessing: every response so far was a 2xx "processing";         *)
(*   prefixProcessing: every response before the last one was              *)
(***************************************************************************)
IdlePoll ==
    [pc |-> "idle", uploadId |-> "none", i |-> 0, queries |-> 0, responses |-> 0, onlyProcessing |-> TRUE,
     prefixProcessing |-> TRUE, last |-> NoResponse, result |-> NoResult]

\* the call up to its first await
FetchConvertedModelEnter(uploadId) ==
    IF variant = "presigned" /\ ~apiBaseSet
    THEN [IdlePoll EXCEPT !.pc = "threw", !.uploadId = uploadId,
                          !.result = Thrown("NoApiBase", "none", 0, "API_BASE_URL is not set")]
    ELSE [IdlePoll EXCEPT !.pc = "fetching", !.uploadId = uploadId, !.queries = 1]

\* the message of the Error thrown for status "failed"
ConversionFailedError(r) ==
    IF variant = "direct"
    THEN Thrown("ConversionFailed", "result", 0,
                IF r.error = "undefined" THEN "Unknown" ELSE r.error)
    ELSE Thrown("ConversionFailed", "result", 0, "none")

\* !response.ok
ResponseNotOk_Ignored(r) == FALSE
ResponseNotOk(r) == ~r.ok

\* the value of "return result.model_info"
CompletedModel_Mock(r) == [url |-> "/api/mock-model", type |-> "obj", label |-> "Demo model"]
CompletedModel(r) == r.model_info

\* the loop test i < MAX_POLLING_ATTEMPTS
LoopContinues_OffByOne(i) == i <= MAX_POLLING_ATTEMPTS
LoopContinues(i) == i < MAX_POLLING_ATTEMPTS

\* a status response arrives
FetchConvertedModelResponse(pl, r) ==
    LET q == [pl EXCEPT !.responses = @ + 1,
                        !.onlyProcessing = @ /\ IsProcessing(r),
                        !.prefixProcessing = pl.onlyProcessing,
                        !.last = r]
    IN  IF ResponseNotOk(r)
        THEN [q EXCEPT !.pc = "threw",
                       !.result = Thrown("TransportError", "result", r.http,
                                         "Failed to fetch conversion status")]
        ELSE IF r.status = "completed" /\ r.model_info # NoModel
        THEN [q EXCEPT !.pc = "returned", !.result = Returned("none", CompletedModel(r))]
        ELSE IF r.status = "failed"
        THEN [q EXCEPT !.pc = "threw", !.result = ConversionFailedError(r)]
        ELSE [q EXCEPT !.pc = "sleeping"]

\* the inter-poll delay (POLLING_INTERVAL_MS) elapses: i++ and the loop test
FetchConvertedModelWake(pl) ==
    IF LoopContinues(pl.i + 1)
    THEN [pl EXCEPT !.i = @ + 1, !.pc = "fetching", !.queries = @ + 1]
    ELSE [pl EXCEPT !.i = @ + 1, !.pc = "threw",
                    !.result = Thrown("Timeout", "result", 0, "Model conversion timed out.")]

(***************************************************************************)
(* GET /api/static/[...slug] (route.ts)                                    *)
(*   A name is the sequence of its characters, a path the sequence of its  *)
(*   names, and the string of a path is the sequence of characters the     *)
(*   code compares with startsWith.                                        *)
(***************************************************************************)
\* the longest slug of a request
MaxSlugLen == 3

Dot     == <<".">>
DotDot  == <<".", ".">>
\* the names of the model: "app", "app-s" (a name that begins with "app"),
\* "k" and the empty name
NameApp == <<"a", "p", "p">>
NameAppS == <<"a", "p", "p", "-", "s">>
NameK   == <<"k">>
SlugNames == {<<>>, Dot, DotDot, NameApp, NameAppS, NameK}

\* process.cwd(): an absolute path with no trailing separator
ProjectRoots == {<<NameApp>>, <<NameApp, NameApp>>}

\* the regular files of the server
ServerFiles ==
    { <<NameApp, NameK>>, <<NameApp, NameApp, NameK>>, <<NameAppS, NameK>>,
      <<NameApp, NameAppS, NameK>>, <<NameK>> }

Slugs == UNION {[1..n -> SlugNames] : n \in 0..MaxSlugLen}

\* slug.join("/")
RECURSIVE SlugJoin(_)
SlugJoin(slug) ==
    IF slug = <<>> THEN <<>>
    ELSE IF Len(slug) = 1 THEN slug[1]
    ELSE slug[1] \o <<"/">> \o SlugJoin(Tail(slug))

\* the string of an absolute path
RECURSIVE PathString(_)
PathString(path) ==
    IF path = <<>> THEN <<>> ELSE <<"/">> \o path[1] \o PathString(Tail(path))

\* path.normalize of an absolute path: "." and empty names are dropped, ".."
\* removes the name before it and is dropped at the root
RECURSIVE Normalize(_, _)
Normalize(done, rest) ==
    IF rest = <<>> THEN done
    ELSE IF Head(rest) \in {<<>>, Dot} THEN Normalize(done, Tail(rest))
    ELSE IF Head(rest) = DotDot
    THEN Normalize(IF done = <<>> THEN done ELSE SubSeq(done, 1, Len(done) - 1), Tail(rest))
    ELSE Normalize(Append(done, Head(rest)), Tail(rest))

\* path.join(projectRoot, filename)
PathJoin(root, slug) == Normalize(<<>>, root \o slug)

\* String.prototype.startsWith
StartsWith(s, prefix) ==
    Len(s) >= Len(prefix) /\ SubSeq(s, 1, Len(prefix)) = prefix

\* requestedPath.startsWith(projectRoot)
RootCheck(requested, root) == StartsWith(PathString(requested), PathString(root))

\* the file of path lies in the directory root or below it
InsideRoot(path, root) ==
    Len(path) > Len(root) /\ SubSeq(path, 1, Len(root)) = root

IdleRoute == [pc |-> "idle", root |-> <<>>, slug |-> <<>>, status |-> 0, served |-> <<>>]

\* GET: the response, and the file whose content it carries
StaticGet(root, slug) ==
    LET requested == PathJoin(root, slug)
        answer(st, file) == [pc |-> "answered", root |-> root, slug |-> slug,
                             status |-> st, served |-> file]
    IN  IF SlugJoin(slug) = <<>> THEN answer(400, <<>>)
        ELSE IF ~RootCheck(requested, root) THEN answer(403, <<>>)
        \* fs.readFile rejects for a path that is no regular file
        ELSE IF requested \notin ServerFiles THEN answer(404, <<>>)
        ELSE answer(200, requested)

(***************************************************************************)
(* HomePage (page.tsx)                                                     *)
(***************************************************************************)
ACCESS_PASSWORD == "2025jhyw"

Stages == {"locked", "record", "review", "viewer"}
StreamIds == 1..MaxStreams
RecorderIds == 1..MaxRecorders

\* a MediaRecorder the page created, with the countdown interval created
\* with it: state "recording", "stopping" (stop() called, its stop event not
\* yet delivered) or "inactive"; timer = that interval is armed;
\* stream = the stream it records (0 when not recording)
IdleRecorder == [state |-> "inactive", timer |-> FALSE, stream |-> 0]

InitPageState ==
    [ stage |-> "locked",
      passwordError |-> FALSE,
      mediaStream |-> 0,
      mediaStreamRef |-> 0,
      recorderRef |-> 0,
      recordingStatus |-> "idle",
      timerRef |-> 0,
      elapsedMs |-> 0,
      isCameraLoading |-> FALSE,
      videoBlob |-> NoBlob,
      videoSource |-> "null",
      processingResult |-> FALSE,
      modelUrl |-> "null",
      modelType |-> "obj",
      modelLabel |-> "Demo model",
      modelLoading |-> FALSE,
      toast |-> "none",              \* tone of the notice shown: "none" | "info" | "error"
      autoStartRef |-> FALSE,
      \* browser objects
      liveStreams |-> {},            \* acquired streams whose tracks are not stopped
      recorders |-> [i \in RecorderIds |-> IdleRecorder],
      pendingOpens |-> 0,            \* openCamera calls suspended at getUserMedia
      autoStartTimers |-> 0,         \* 50 ms auto-start timeouts not yet fired
      stageEffectDue |-> FALSE,      \* stage changed, its effect has not run yet
      confirmPc |-> "idle",          \* handleConfirm: "idle" | "upload" | "poll" | "recover"
      jobStale |-> FALSE,            \* capture was re-entered since that handleConfirm began
      jobModelInfo |-> NoModel,      \* model_info of the response that completed the last poll
      mounted |-> TRUE,              \* the component is mounted
      loadedCalls |-> 0,             \* onLoaded invocations by the viewer now mounted
      lastReset |-> "none",          \* the review button that made the last openCamera call
                                     \* of this stay in capture: "cancel" | "retry" | "none"
      modelOfLastJob |-> FALSE ]     \* modelUrl holds the model of the job submitted last

\* setStage.  The effect on [stage] runs with the render that follows; a
\* setStage that arrives before that render is batched with it, so the effect
\* sees the stage of the render, not the stages in between
SetStage(p, st) ==
    [p EXCEPT !.stage = st, !.stageEffectDue = @ \/ (st # p.stage),
              \* renderViewer is rendered in stage viewer only
              !.loadedCalls = IF st = "viewer" THEN @ ELSE 0,
              !.lastReset = IF st = "record" THEN @ ELSE "none"]

\* showToast(message, tone): the notice is modelled by its tone
ShowToast(p, tone) == [p EXCEPT !.toast = tone]

ResetRecordingState(p) ==
    [p EXCEPT !.videoBlob = NoBlob, !.videoSource = "null", !.elapsedMs = 0,
              !.recordingStatus = "idle"]

CleanupTimer(p) ==
    IF p.timerRef # 0
    THEN [p EXCEPT !.recorders[p.timerRef].timer = FALSE, !.timerRef = 0]
    ELSE p

\* MediaRecorder.stop(): nothing when not recording, else the recorder goes
\* inactive and its stop event is queued
StopRecorder(p, id) ==
    IF p.recorders[id].state = "recording"
    THEN [p EXCEPT !.recorders[id].state = "stopping", !.recorders[id].stream = 0]
    ELSE p

\* track.stop() on every track of stream sid; the browser stops the recorders
\* whose stream has no live track left
StopTracks(p, sid) ==
    [p EXCEPT !.liveStreams = @ \ {sid},
              !.recorders = [i \in RecorderIds |->
                  IF @[i].state = "recording" /\ @[i].stream = sid
                  THEN [@[i] EXCEPT !.state = "stopping", !.stream = 0]
                  ELSE @[i]]]

\* the same without "recorderRef.current = null"
StopStream_RecorderKept(p) ==
    LET p1 == CleanupTimer(p)
        p2 == IF p1.recorderRef # 0 THEN StopRecorder(p1, p1.recorderRef) ELSE p1
        p4 == IF p2.mediaStreamRef # 0
              THEN [StopTracks(p2, p2.mediaStreamRef) EXCEPT !.mediaStreamRef = 0]
              ELSE p2
    IN  [p4 EXCEPT !.mediaStream = 0]

StopStream(p) ==
    LET p1 == CleanupTimer(p)
        p2 == IF p1.recorderRef # 0 THEN StopRecorder(p1, p1.recorderRef) ELSE p1
        p3 == [p2 EXCEPT !.recorderRef = 0]
        p4 == IF p3.mediaStreamRef # 0
              THEN [StopTracks(p3, p3.mediaStreamRef) EXCEPT !.mediaStreamRef = 0]
              ELSE p3
    IN  [p4 EXCEPT !.mediaStream = 0]

\* openCamera up to its await, or to its return when it does not await
OpenCamera(p, autoStart) ==
    LET p1 == ResetRecordingState(StopStream(p))
        p2 == [p1 EXCEPT !.autoStartRef = autoStart, !.modelLoading = FALSE,
                         !.lastReset = "none"]
    IN  IF ~secureContext
        THEN SetStage(ShowToast(p2, "error"), "locked")
        ELSE IF ~hasGetUserMedia
        THEN SetStage(ShowToast(p2, "info"), "record")
        ELSE [SetStage(p2, "record") EXCEPT !.isCameraLoading = TRUE]

\* openCamera suspends at getUserMedia exactly when both checks pass
OpenCameraAwaits == secureContext /\ hasGetUserMedia

\* openCamera called and not awaited by its caller (void openCamera(..)), or
\* awaited by a caller that does nothing after it (handlePasswordSubmit)
CallOpenCamera(p, autoStart) ==
    LET q == OpenCamera(p, autoStart)
    IN  IF OpenCameraAwaits THEN [q EXCEPT !.pendingOpens = @ + 1] ELSE q

\* openCamera after getUserMedia resolved with stream sid
OpenCameraResolved(p, sid) ==
    [p EXCEPT !.liveStreams = @ \cup {sid},
              !.mediaStreamRef = sid,
              !.mediaStream = sid,
              !.isCameraLoading = FALSE,
              !.autoStartRef = FALSE,
              !.autoStartTimers = IF p.autoStartRef THEN @ + 1 ELSE @]

CameraErrorNames == {"NotAllowedError", "NotFoundError", "Error"}

\* openCamera after getUserMedia rejected
OpenCameraRejected(p, errorName) ==
    LET p1 == [p EXCEPT !.isCameraLoading = FALSE]
        \* the message depends on errorName, its tone does not
        p2 == ShowToast(p1, "error")
    IN  SetStage(p2, "record")

FreeStreamIds(p) == StreamIds \ p.liveStreams
NewStreamId(p) == CHOOSE i \in FreeStreamIds(p) : \A j \in FreeStreamIds(p) : i <= j

\* recorder slots holding no object the program or the browser still uses
FreeRecorderIds(p) ==
    {i \in RecorderIds : p.recorders[i].state = "inactive" /\ ~p.recorders[i].timer}
NewRecorderId(p) == CHOOSE i \in FreeRecorderIds(p) : \A j \in FreeRecorderIds(p) : i <= j

StartOutcomes == {"ok", "constructorThrows", "startThrows"}

\* the same returning next where the code returns MAX_DURATION_MS
CountdownTick_Uncapped(p, id) ==
    LET next == p.elapsedMs + TICK_MS
    IN  IF next >= MAX_DURATION_MS
        THEN [StopRecorder(p, id) EXCEPT !.elapsedMs = next]
        ELSE [p EXCEPT !.elapsedMs = next]

\* the countdown callback of recorder id's interval
CountdownTick(p, id) ==
    LET next == p.elapsedMs + TICK_MS
    IN  IF next >= MAX_DURATION_MS
        THEN [StopRecorder(p, id) EXCEPT !.elapsedMs = MAX_DURATION_MS]
        ELSE [p EXCEPT !.elapsedMs = next]

HandleStartRecording(p, outcome) ==
    IF p.mediaStreamRef = 0
    THEN ShowToast(p, "error")
    ELSE IF outcome = "constructorThrows"
    THEN ShowToast(p, "error")
    ELSE LET id == NewRecorderId(p)
             p1 == [p EXCEPT !.recorderRef = id,
                             !.videoBlob = NoBlob,
                             !.recordingStatus = "recording",
                             !.elapsedMs = 0]
         IN  IF outcome = "startThrows"
             THEN ShowToast(p1, "error")
             ELSE [p1 EXCEPT !.recorders[id] =
                                 [state |-> "recording", timer |-> TRUE,
                                  stream |-> p.mediaStreamRef],
                             !.timerRef = id]

\* recorder.onstop, with the size of the Blob built from the chunks
RecorderOnStop(p, id, size) ==
    LET p1 == CleanupTimer([p EXCEPT !.recorders[id].state = "inactive"])
        p2 == [p1 EXCEPT !.videoBlob = [source |-> "recorded", size |-> size],
                         !.videoSource = "recorded",
                         !.recordingStatus = "idle"]
    IN  SetStage(p2, "review")

\* useEffect(() => { if (stage !== "record") stopStream(); }, [stage, stopStream])
StageEffectBody(p) ==
    LET p1 == IF p.stage # "record" THEN StopStream(p) ELSE p
    IN  [p1 EXCEPT !.stageEffectDue = FALSE]

\* the same with a finally block that leaves processingResult as it is
ConfirmFinally_KeepsDisabled(p) ==
    [p EXCEPT !.recordingStatus = "idle", !.confirmPc = "idle", !.jobStale = FALSE]

\* the finally block of handleConfirm
ConfirmFinally(p) ==
    [p EXCEPT !.processingResult = FALSE, !.recordingStatus = "idle",
              !.confirmPc = "idle", !.jobStale = FALSE]

\* the catch block of handleConfirm up to the await inside openCamera, and
\* through finally when openCamera does not await
ConfirmCatch(p) ==
    LET q == OpenCamera(ShowToast(p, "error"), FALSE)
    IN  IF OpenCameraAwaits THEN [q EXCEPT !.confirmPc = "recover"] ELSE ConfirmFinally(q)

\* the page is mounted, rendered and its effects have run: a user event can
\* be delivered
UserCanAct == page.mounted /\ ~page.stageEffectDue

\* the render caused by a user event, and its effects, are flushed with it
AfterUserEvent(p) == IF p.stageEffectDue THEN StageEffectBody(p) ELSE p

PasswordInputs == {ACCESS_PASSWORD, " 2025jhyw ", "2025", ""}
Trim(v) == IF v = " 2025jhyw " THEN "2025jhyw" ELSE v

SelectedFiles ==
    {[kind |-> "none", size |-> 0]}
    \cup [kind : {"video", "other"}, size : 0..MaxBlobSize]

(***************************************************************************)
(* User events                                                             *)
(***************************************************************************)
\* the same with the comparison ACCESS_PASSWORD.startsWith(value)
PasswordSubmitWith_PrefixAccepted(value) ==
    /\ UserCanAct
    /\ page.stage = "locked"
    /\ IF Trim(value) \in {ACCESS_PASSWORD, "2025", ""}
       THEN /\ page.pendingOpens < MaxPendingOpens
            /\ page' = AfterUserEvent(
                          CallOpenCamera([page EXCEPT !.passwordError = FALSE], FALSE))
       ELSE page' = [page EXCEPT !.passwordError = TRUE]
    /\ UNCHANGED <<envVars, route, up, poll>>

\* handlePasswordSubmit with the content of the password input
PasswordSubmitWith(value) ==
    /\ UserCanAct
    /\ page.stage = "locked"
    /\ IF Trim(value) = ACCESS_PASSWORD
       THEN /\ page.pendingOpens < MaxPendingOpens
            /\ page' = AfterUserEvent(
                          CallOpenCamera([page EXCEPT !.passwordError = FALSE], FALSE))
       ELSE page' = [page EXCEPT !.passwordError = TRUE]
    /\ UNCHANGED <<envVars, route, up, poll>>

PasswordSubmit == \E value \in PasswordInputs : PasswordSubmitWith(value)

PasswordChange ==
    /\ UserCanAct
    /\ page.stage = "locked"
    /\ page.passwordError
    /\ page' = [page EXCEPT !.passwordError = FALSE]
    /\ UNCHANGED <<envVars, route, up, poll>>

\* handleStartRecording can create its recorder
CanStart(p, outcome) ==
    (p.mediaStreamRef # 0 /\ outcome # "constructorThrows") => FreeRecorderIds(p) # {}

\* the start button: shown while recordingStatus is not "recording", disabled
\* while the camera is loading
ClickStartRecordingWith(outcome) ==
    /\ UserCanAct
    /\ page.stage = "record"
    /\ page.recordingStatus # "recording"
    /\ ~page.isCameraLoading
    /\ CanStart(page, outcome)
    /\ page' = AfterUserEvent(HandleStartRecording(page, outcome))
    /\ UNCHANGED <<envVars, route, up, poll>>

ClickStartRecording == \E outcome \in StartOutcomes : ClickStartRecordingWith(outcome)

\* handleStopRecording
HandleStopRecording(p) ==
    IF p.recorderRef # 0 /\ p.recorders[p.recorderRef].state = "recording"
    THEN StopRecorder(p, p.recorderRef)
    ELSE p

\* the stop button: shown while recordingStatus is "recording"
ClickStopRecording ==
    /\ UserCanAct
    /\ page.stage = "record"
    /\ page.recordingStatus = "recording"
    /\ page' = HandleStopRecording(page)
    /\ UNCHANGED <<envVars, route, up, poll>>

HandleFileSelect(p, file) ==
    IF file.kind = "none" THEN p
    ELSE IF file.kind # "video" THEN ShowToast(p, "error")
    ELSE SetStage([p EXCEPT !.videoBlob = [source |-> "uploaded", size |-> file.size],
                            !.videoSource = "uploaded"], "review")

\* the change event of the file input, shown in the capture stage
FileSelectWith(file) ==
    /\ UserCanAct
    /\ page.stage = "record"
    /\ page' = AfterUserEvent(HandleFileSelect(page, file))
    /\ UNCHANGED <<envVars, route, up, poll>>

FileSelect == \E file \in SelectedFiles : FileSelectWith(file)

\* capture is re-entered while a handleConfirm is still between its awaits
MarkStale(p) == [p EXCEPT !.jobStale = @ \/ (p.confirmPc \in {"upload", "poll"})]

\* handleReviewReset: the cancel (autoStart = FALSE) and retry (autoStart =
\* TRUE) buttons
ReviewResetWith(autoStart) ==
    /\ UserCanAct
    /\ page.stage = "review"
    /\ page.pendingOpens < MaxPendingOpens
    /\ autoStart => page.autoStartTimers < MaxAutoStart
    /\ LET q == CallOpenCamera(MarkStale(page), autoStart)
       IN  page' = AfterUserEvent(
                      [q EXCEPT !.lastReset = IF q.stage # "record" THEN "none"
                                              ELSE IF autoStart THEN "retry" ELSE "cancel"])
    /\ UNCHANGED <<envVars, route, up, poll>>

ReviewReset == \E autoStart \in BOOLEAN : ReviewResetWith(autoStart)

\* the same with a confirm button that is never disabled
ClickConfirm_NeverDisabled ==
    /\ UserCanAct
    /\ page.stage = "review"
    /\ IF page.videoBlob = NoBlob
       THEN /\ page' = ShowToast(page, "error")
            /\ up' = up
       ELSE LET p1 == [page EXCEPT !.processingResult = TRUE,
                                   !.recordingStatus = "processing",
                                   !.jobStale = FALSE,
                                   !.modelOfLastJob = FALSE]
                u == UploadVideoEnter(page.videoBlob)
            IN  IF u.pc = "threw"
                THEN /\ page' = ConfirmCatch(p1)
                     /\ up' = IdleUpload
                ELSE /\ page' = [p1 EXCEPT !.confirmPc = "upload"]
                     /\ up' = u
    /\ UNCHANGED <<envVars, route, poll>>

\* handleConfirm up to its first await: the confirm button, disabled while
\* processingResult
ClickConfirm ==
    /\ UserCanAct
    /\ page.stage = "review"
    /\ ~page.processingResult
    /\ IF page.videoBlob = NoBlob
       THEN /\ page' = ShowToast(page, "error")
            /\ up' = up
       ELSE LET p1 == [page EXCEPT !.processingResult = TRUE,
                                   !.recordingStatus = "processing",
                                   !.jobStale = FALSE,
                                   !.modelOfLastJob = FALSE]
                u == UploadVideoEnter(page.videoBlob)
            IN  IF u.pc = "threw"
                THEN /\ page' = ConfirmCatch(p1)
                     /\ up' = IdleUpload
                ELSE /\ page' = [p1 EXCEPT !.confirmPc = "upload"]
                     /\ up' = u
    /\ UNCHANGED <<envVars, route, poll>>

\* handleBackToRecording: the restart button of the viewer
BackToRecording ==
    /\ UserCanAct
    /\ page.stage = "viewer"
    /\ page.pendingOpens < MaxPendingOpens
    /\ page' = AfterUserEvent(
                  CallOpenCamera([MarkStale(page) EXCEPT !.modelUrl = "null",
                                                         !.modelLoading = FALSE,
                                                         !.modelOfLastJob = FALSE], FALSE))
    /\ UNCHANGED <<envVars, route, up, poll>>

(***************************************************************************)
(* Browser, timer and network events                                       *)
(***************************************************************************)
\* getUserMedia of an openCamera call resolves (not the call of handleConfirm)
GetUserMediaResolves ==
    /\ page.pendingOpens > 0
    /\ FreeStreamIds(page) # {}
    /\ page' = OpenCameraResolved([page EXCEPT !.pendingOpens = @ - 1], NewStreamId(page))
    /\ UNCHANGED <<envVars, route, up, poll>>

GetUserMediaRejects ==
    /\ page.pendingOpens > 0
    /\ \E e \in CameraErrorNames :
          page' = OpenCameraRejected([page EXCEPT !.pendingOpens = @ - 1], e)
    /\ UNCHANGED <<envVars, route, up, poll>>

\* getUserMedia of the openCamera call awaited in handleConfirm's catch
\* settles; openCamera returns and the finally block runs
GetUserMediaSettlesInConfirm ==
    /\ page.confirmPc = "recover"
    /\ \/ /\ FreeStreamIds(page) # {}
          /\ page' = ConfirmFinally(OpenCameraResolved(page, NewStreamId(page)))
       \/ \E e \in CameraErrorNames : page' = ConfirmFinally(OpenCameraRejected(page, e))
    /\ UNCHANGED <<envVars, route, up, poll>>

\* the 50 ms timeout armed by openCamera for autoStart fires
AutoStartTimeout ==
    /\ page.autoStartTimers > 0
    /\ LET p == [page EXCEPT !.autoStartTimers = @ - 1]
       IN  \E outcome \in StartOutcomes :
              /\ CanStart(p, outcome)
              /\ page' = HandleStartRecording(p, outcome)
    /\ UNCHANGED <<envVars, route, up, poll>>

\* the 1-second countdown interval of recorder id fires
CountdownOf(id) ==
    /\ page.recorders[id].timer
    /\ page' = CountdownTick(page, id)
    /\ UNCHANGED <<envVars, route, up, poll>>

Countdown == \E id \in RecorderIds : CountdownOf(id)

\* the same, in the first MaxTicks seconds after elapsedMs was reset
CountdownEarly ==
    /\ page.elapsedMs < MaxTicks * TICK_MS
    /\ Countdown

\* the stop event of a stopped recorder is delivered; size is the number of
\* bytes in the chunks it recorded
RecorderStopEventWith(size) ==
    /\ \E id \in RecorderIds :
          /\ page.recorders[id].state = "stopping"
          /\ page' = RecorderOnStop(page, id, size)
    /\ UNCHANGED <<envVars, route, up, poll>>

RecorderStopEvent == \E size \in 0..MaxBlobSize : RecorderStopEventWith(size)

\* the render, and its effect, after stage was set by a timer, a promise or a
\* recorder event
StageEffect ==
    /\ page.mounted
    /\ page.stageEffectDue
    /\ page' = StageEffectBody(page)
    /\ UNCHANGED <<envVars, route, up, poll>>

\* the 3.2 s toast timeout
ToastExpires ==
    /\ page.toast # "none"
    /\ page' = [page EXCEPT !.toast = "none"]
    /\ UNCHANGED <<envVars, route, up, poll>>

\* the effect of ObjModel / StlModel, with dependencies [object, onLoaded],
\* calls onLoaded.  The page passes an inline arrow function, a new one in
\* every render: the effect is due when the asset is loaded and again after
\* every render of the page, and the toast that onLoaded raises causes one
ViewerLoaded ==
    /\ page.mounted
    /\ page.stage = "viewer"
    /\ page.modelUrl # "null"
    /\ page' = ShowToast([page EXCEPT !.modelLoading = FALSE,
                                      !.loadedCalls = IF @ < MaxLoaded THEN @ + 1 ELSE @],
                         "info")
    /\ UNCHANGED <<envVars, route, up, poll>>

\* the component unmounts (navigation away): the cleanup of the unmount
\* effect runs stopStream and clears the toast timeout; nothing else of the
\* page is cancelled.  Afterwards no user event and no effect runs; timers,
\* promises and recorder events that are still outstanding run their
\* callbacks as before (their state updates are dropped by React and read
\* by no code)
UnmountCleanup(p) == [StopStream(p) EXCEPT !.toast = "none", !.mounted = FALSE]

Unmount ==
    /\ page.mounted
    /\ page' = UnmountCleanup(page)
    /\ UNCHANGED <<envVars, route, up, poll>>

(***************************************************************************)
(* handleConfirm after each await: the response that settles uploadVideo   *)
(* or fetchConvertedModel resumes handleConfirm in the same task           *)
(***************************************************************************)
\* after "await uploadVideo" returned: stage viewer, then fetchConvertedModel
\* up to its first await
ConfirmUploaded(p, pl) ==
    LET p1 == ShowToast([SetStage(p, "viewer") EXCEPT !.modelLoading = TRUE], "info")
    IN  IF pl.pc = "threw" THEN ConfirmCatch(p1) ELSE [p1 EXCEPT !.confirmPc = "poll"]

\* after "await fetchConvertedModel" returned model
ConfirmCompleted_KeepsType(p, model) ==
    ConfirmFinally([p EXCEPT !.modelUrl = model.url, !.modelLabel = model.label,
                             !.modelOfLastJob = TRUE,
                             !.loadedCalls = IF model.url # p.modelUrl THEN 0 ELSE @])

\* the viewer is keyed by modelUrl: a new url mounts a new viewer
ConfirmCompleted(p, model) ==
    ConfirmFinally([p EXCEPT !.modelUrl = model.url,
                             !.modelType = model.type,
                             !.modelLabel = model.label,
                             !.modelOfLastJob = TRUE,
                             !.loadedCalls = IF model.url # p.modelUrl THEN 0 ELSE @])

\* a response to the upload request in flight
UploadResponseWith(ok, http, id) ==
    /\ page.confirmPc = "upload"
    /\ LET u == UploadVideoResume(up, ok, http, id)
       IN  CASE u.pc = "returned" ->
                  LET pl == FetchConvertedModelEnter(u.result.uploadId)
                  IN  /\ up' = IdleUpload
                      /\ poll' = IF pl.pc = "threw" THEN IdlePoll ELSE pl
                      /\ page' = ConfirmUploaded(page, pl)
             [] u.pc = "threw" ->
                  /\ up' = IdleUpload
                  /\ poll' = poll
                  /\ page' = ConfirmCatch(page)
             [] OTHER ->
                  /\ up' = u
                  /\ UNCHANGED <<poll, page>>
    /\ UNCHANGED <<envVars, route>>

UploadResponse ==
    \E ok \in BOOLEAN, h \in HttpErrors, id \in JobIds :
        UploadResponseWith(ok, IF ok THEN 200 ELSE h, id)

\* fetchConvertedModel took the step pl
ConfirmPolled(pl, info) ==
    CASE pl.pc = "returned" ->
           /\ poll' = IdlePoll
           /\ page' = [ConfirmCompleted(page, pl.result.model) EXCEPT !.jobModelInfo = info]
      [] pl.pc = "threw" ->
           /\ poll' = IdlePoll
           /\ page' = ConfirmCatch(page)
      [] OTHER ->
           /\ poll' = pl
           /\ page' = page

\* a response to the status query in flight
StatusResponseWith(r) ==
    /\ page.confirmPc = "poll"
    /\ poll.pc = "fetching"
    /\ ConfirmPolled(FetchConvertedModelResponse(poll, r), r.model_info)
    /\ UNCHANGED <<envVars, route, up>>

\* the server keeps a job non-terminal for MaxProcessing responses at most
StatusResponse ==
    \E r \in StatusResponses :
        /\ (r.ok /\ r.status # "failed" /\ r.model_info = NoModel) => poll.i < MaxProcessing
        /\ StatusResponseWith(r)

PollDelay ==
    /\ page.confirmPc = "poll"
    /\ poll.pc = "sleeping"
    /\ ConfirmPolled(FetchConvertedModelWake(poll), NoModel)
    /\ UNCHANGED <<envVars, route, up>>

(***************************************************************************)
(* The session: every user, browser, timer and network event of the page.  *)
(* The user asks for the camera only when no request for it is pending,    *)
(* and a recording starts only when no earlier recorder is still active,   *)
(* stopping or ticking; SpecCapture lifts both restrictions.               *)
(***************************************************************************)
Init ==
    /\ variant \in Variants
    /\ apiBaseSet \in BOOLEAN
    /\ secureContext \in BOOLEAN
    /\ hasGetUserMedia \in BOOLEAN
    /\ up = IdleUpload
    /\ poll = IdlePoll
    /\ page = InitPageState
    /\ route = IdleRoute

NoOpenPending == page.pendingOpens = 0
NoRecorderBusy == FreeRecorderIds(page) = RecorderIds

Next ==
    \/ NoOpenPending /\ PasswordSubmit
    \/ PasswordChange
    \/ NoRecorderBusy /\ ClickStartRecording
    \/ ClickStopRecording
    \/ FileSelect
    \/ NoOpenPending /\ ReviewReset
    \/ ClickConfirm
    \/ NoOpenPending /\ BackToRecording
    \/ GetUserMediaResolves
    \/ GetUserMediaRejects
    \/ GetUserMediaSettlesInConfirm
    \/ NoRecorderBusy /\ AutoStartTimeout
    \/ CountdownEarly
    \/ RecorderStopEvent
    \/ StageEffect
    \/ ToastExpires
    \/ ViewerLoaded
    \/ UploadResponse
    \/ StatusResponse
    \/ PollDelay

Spec == Init /\ [][Next]_vars

(***************************************************************************)
(* The capture stages alone: no confirm, every overlap of camera requests  *)
(* and recorders within the bounds                                         *)
(***************************************************************************)
NextCapture ==
    \/ PasswordSubmit
    \/ PasswordChange
    \/ ClickStartRecording
    \/ ClickStopRecording
    \/ FileSelect
    \/ ReviewReset
    \/ GetUserMediaResolves
    \/ GetUserMediaRejects
    \/ AutoStartTimeout
    \/ CountdownEarly
    \/ RecorderStopEvent
    \/ StageEffect
    \/ ToastExpires

SpecCapture == Init /\ [][NextCapture]_vars

(***************************************************************************)
(* The two functions of api.ts called on their own                         *)
(***************************************************************************)
InitApi ==
    /\ variant \in Variants
    /\ apiBaseSet \in BOOLEAN
    /\ secureContext = TRUE
    /\ hasGetUserMedia = TRUE
    /\ up = IdleUpload
    /\ poll = IdlePoll
    /\ page = InitPageState
    /\ route = IdleRoute

ApiUploadVideo ==
    /\ up.pc = "idle"
    /\ \E blob \in Blobs \cup {NoBlob} : up' = UploadVideoEnter(blob)
    /\ UNCHANGED <<envVars, route, poll, page>>

ApiUploadResponse ==
    /\ UploadInFlight(up)
    /\ \E ok \in BOOLEAN, h \in HttpErrors, id \in JobIds :
          up' = UploadVideoResume(up, ok, IF ok THEN 200 ELSE h, id)
    /\ UNCHANGED <<envVars, route, poll, page>>

ApiFetchConvertedModel ==
    /\ poll.pc = "idle"
    /\ \E id \in JobIds : poll' = FetchConvertedModelEnter(id)
    /\ UNCHANGED <<envVars, route, up, page>>

ApiStatusResponse ==
    /\ poll.pc = "fetching"
    /\ \E r \in StatusResponses : poll' = FetchConvertedModelResponse(poll, r)
    /\ UNCHANGED <<envVars, route, up, page>>

ApiPollDelay ==
    /\ poll.pc = "sleeping"
    /\ poll' = FetchConvertedModelWake(poll)
    /\ UNCHANGED <<envVars, route, up, page>>

NextApi ==
    \/ ApiUploadVideo
    \/ ApiUploadResponse
    \/ ApiFetchConvertedModel
    \/ ApiStatusResponse
    \/ ApiPollDelay

SpecApi == InitApi /\ [][NextApi]_vars

(***************************************************************************)
(* A recording left to itself: the user acts only while nothing records    *)
(* and never presses stop; intervals, stop events and effects are          *)
(* delivered (weak fairness), getUserMedia may stay pending for ever       *)
(***************************************************************************)
Recording == \E id \in RecorderIds : page.recorders[id].state = "recording"

NextCountdown ==
    \/ ~Recording /\ PasswordSubmit
    \/ ~Recording /\ PasswordChange
    \/ ~Recording /\ ClickStartRecording
    \/ ~Recording /\ FileSelect
    \/ ~Recording /\ ReviewReset
    \/ GetUserMediaResolves
    \/ GetUserMediaRejects
    \/ AutoStartTimeout
    \/ Countdown
    \/ RecorderStopEvent
    \/ StageEffect
    \/ ToastExpires

FairCountdown ==
    /\ \A id \in RecorderIds : WF_vars(CountdownOf(id))
    /\ WF_vars(RecorderStopEvent)
    /\ WF_vars(StageEffect)

SpecCountdown == Init /\ [][NextCountdown]_vars /\ FairCountdown

(***************************************************************************)
(* The uninterrupted happy path: correct password, device acquired, a      *)
(* recording stopped by the user or by the countdown, confirm, the upload  *)
(* returns a job id, the poll answers "processing" twice, then "completed" *)
(***************************************************************************)
HappyProcessing == 2

InitHappy ==
    /\ variant \in Variants
    /\ apiBaseSet = TRUE
    /\ secureContext = TRUE
    /\ hasGetUserMedia = TRUE
    /\ up = IdleUpload
    /\ poll = IdlePoll
    /\ page = InitPageState
    /\ route = IdleRoute

HappyStatusResponse ==
    \E r \in StatusResponses :
        /\ IF poll.responses < HappyProcessing
           THEN IsProcessing(r)
           ELSE r.ok /\ r.status = "completed" /\ r.model_info # NoModel
        /\ StatusResponseWith(r)

NextHappy ==
    \/ PasswordSubmitWith(ACCESS_PASSWORD)
    \/ GetUserMediaResolves
    \/ ClickStartRecordingWith("ok")
    \/ Countdown
    \/ ClickStopRecording
    \/ \E size \in 1..MaxBlobSize : RecorderStopEventWith(size)
    \/ StageEffect
    \/ ClickConfirm
    \/ \E id \in JobIds : UploadResponseWith(TRUE, 200, id)
    \/ HappyStatusResponse
    \/ PollDelay
    \/ ToastExpires
    \/ ViewerLoaded

SpecHappy == InitHappy /\ [][NextHappy]_vars

(***************************************************************************)
(* The session until and after the component unmounts, with the direct     *)
(* variant of api.ts, in a secure context with a capture API               *)
(***************************************************************************)
InitTeardown ==
    /\ variant = "direct"
    /\ apiBaseSet = TRUE
    /\ secureContext = TRUE
    /\ hasGetUserMedia = TRUE
    /\ up = IdleUpload
    /\ poll = IdlePoll
    /\ page = InitPageState
    /\ route = IdleRoute

NextTeardown ==
    \/ NoOpenPending /\ PasswordSubmit
    \/ PasswordChange
    \/ NoRecorderBusy /\ ClickStartRecording
    \/ ClickStopRecording
    \/ FileSelect
    \/ NoOpenPending /\ ReviewReset
    \/ ClickConfirm
    \/ NoOpenPending /\ BackToRecording
    \/ GetUserMediaResolves
    \/ GetUserMediaRejects
    \/ GetUserMediaSettlesInConfirm
    \/ NoRecorderBusy /\ AutoStartTimeout
    \/ CountdownEarly
    \/ RecorderStopEvent
    \/ StageEffect
    \/ ToastExpires
    \/ ViewerLoaded
    \/ UploadResponse
    \/ StatusResponse
    \/ PollDelay
    \/ Unmount

SpecTeardown == InitTeardown /\ [][NextTeardown]_vars

(***************************************************************************)
(* The session of a user who, after confirm, waits for the job to end:     *)
(* no user event while handleConfirm is between its awaits                 *)
(***************************************************************************)
NoJobRunning == page.confirmPc = "idle"

NextJob ==
    \/ NoJobRunning /\ NoOpenPending /\ PasswordSubmit
    \/ NoJobRunning /\ PasswordChange
    \/ NoJobRunning /\ NoRecorderBusy /\ ClickStartRecording
    \/ NoJobRunning /\ ClickStopRecording
    \/ NoJobRunning /\ FileSelect
    \/ NoJobRunning /\ NoOpenPending /\ ReviewReset
    \/ ClickConfirm
    \/ NoJobRunning /\ NoOpenPending /\ BackToRecording
    \/ GetUserMediaResolves
    \/ GetUserMediaRejects
    \/ GetUserMediaSettlesInConfirm
    \/ NoRecorderBusy /\ AutoStartTimeout
    \/ CountdownEarly
    \/ RecorderStopEvent
    \/ StageEffect
    \/ ToastExpires
    \/ ViewerLoaded
    \/ UploadResponse
    \/ StatusResponse
    \/ PollDelay

SpecJob == Init /\ [][NextJob]_vars

(***************************************************************************)
(* A recording that is stopped, by the stop button or by the countdown:    *)
(* the user asks for the camera only when no request for it is pending and *)
(* otherwise acts, the stop button aside, only while no recorder is active *)
(* or stopping and no auto-start is armed; intervals, stop events and      *)
(* effects are delivered (weak fairness)                                   *)
(***************************************************************************)
CaptureQuiet ==
    /\ \A id \in RecorderIds : page.recorders[id].state = "inactive"
    /\ page.autoStartTimers = 0

NextStop ==
    \/ CaptureQuiet /\ NoOpenPending /\ PasswordSubmit
    \/ CaptureQuiet /\ PasswordChange
    \/ CaptureQuiet /\ NoRecorderBusy /\ ClickStartRecording
    \/ ClickStopRecording
    \/ CaptureQuiet /\ FileSelect
    \/ CaptureQuiet /\ NoOpenPending /\ ReviewReset
    \/ GetUserMediaResolves
    \/ GetUserMediaRejects
    \/ NoRecorderBusy /\ AutoStartTimeout
    \/ Countdown
    \/ RecorderStopEvent
    \/ StageEffect
    \/ ToastExpires

SpecStop == Init /\ [][NextStop]_vars /\ FairCountdown

(***************************************************************************)
(* The static file route on its own: requests with every slug              *)
(***************************************************************************)
StaticRequest ==
    /\ route.pc = "idle"
    /\ \E root \in ProjectRoots, slug \in Slugs : route' = StaticGet(root, slug)
    /\ UNCHANGED <<envVars, up, poll, page>>

StaticResponseSent ==
    /\ route.pc = "answered"
    /\ route' = IdleRoute
    /\ UNCHANGED <<envVars, up, poll, page>>

NextStatic ==
    \/ StaticRequest
    \/ StaticResponseSent

SpecStatic == InitApi /\ [][NextStatic]_vars

(***************************************************************************)
(* Claims about the camera and the confirm pipeline of the page            *)
(***************************************************************************)
\* C1: for every sequence of openCamera calls, calls issued while an earlier
\* one is still suspended at getUserMedia included, at most one acquired and
\* not yet stopped media stream exists at any instant.  (SpecCapture)
C1_AtMostOneLiveStream == Cardinality(page.liveStreams) <= 1

\* a job outcome reaches handleConfirm: it leaves the await it was at
JobOutcome == page.confirmPc \in {"upload", "poll"} /\ page'.confirmPc # page.confirmPc

\* C2: when capture was re-entered while the upload or the poll of a
\* confirmed job was outstanding, the later outcome of that job changes none
\* of stage, modelUrl, modelType, modelLabel, recordingStatus and videoBlob,
\* and does not re-open the camera.  (Spec)
C2_StaleOutcomeStep ==
    (page.jobStale /\ JobOutcome) =>
        /\ page'.stage = page.stage
        /\ page'.modelUrl = page.modelUrl
        /\ page'.modelType = page.modelType
        /\ page'.modelLabel = page.modelLabel
        /\ page'.recordingStatus = page.recordingStatus
        /\ page'.videoBlob = page.videoBlob
        /\ page'.confirmPc # "recover"
        /\ page'.isCameraLoading = page.isCameraLoading
        /\ page'.mediaStreamRef = page.mediaStreamRef

\* C2: every step of the session leaves a stale job's outcome without effect.
C2_StaleOutcomeIgnored == [][C2_StaleOutcomeStep]_vars

(***************************************************************************)
(* Claims about api.ts, checked under SpecApi                              *)
(***************************************************************************)
PollSettled == poll.pc \in {"returned", "threw"}
PollConfigured == variant = "direct" \/ apiBaseSet

\* C3: a zero-byte recording, and a missing one, makes uploadVideo fail with
\* the empty-artifact error before any request of any upload step is issued,
\* in the direct and in the pre-signed variant.
C3_EmptyArtifactBeforeNetwork ==
    (up.pc # "idle" /\ (up.blob = NoBlob \/ up.blob.size = 0)) =>
        /\ up.pc = "threw"
        /\ up.result.kind = "EmptyArtifact"
        /\ up.requests = <<>>

C3_Witness ==
    /\ variant = "presigned"
    /\ up.blob \in Blobs
    /\ up.blob.size = 0
    /\ up.pc = "threw"
    /\ up.result.kind = "EmptyArtifact"

\* C4: when every status response is a 2xx "processing", fetchConvertedModel
\* ends with the Timeout error after exactly MAX_POLLING_ATTEMPTS queries; no
\* 61st query is ever issued, and while it runs the loop variable stays below
\* the ceiling and counts the queries, so the loop cannot run forever.
C4_TimeoutAfterSixtyQueries ==
    /\ poll.queries <= MAX_POLLING_ATTEMPTS
    /\ poll.pc \in {"fetching", "sleeping"} =>
          poll.i < MAX_POLLING_ATTEMPTS /\ poll.queries = poll.i + 1
    /\ (PollConfigured /\ PollSettled /\ poll.onlyProcessing) =>
          /\ poll.pc = "threw"
          /\ poll.result.kind = "Timeout"
          /\ poll.queries = MAX_POLLING_ATTEMPTS
          /\ poll.responses = MAX_POLLING_ATTEMPTS

C4_Witness ==
    /\ poll.pc = "threw"
    /\ poll.result.kind = "Timeout"
    /\ poll.onlyProcessing
    /\ poll.queries = MAX_POLLING_ATTEMPTS

\* C5: for every k in 1..60, when responses 1..k-1 are "processing" and
\* response k is "completed" with a model_info, fetchConvertedModel has
\* returned exactly that model_info after exactly k queries; once it has
\* returned it issues no query and arms no delay timer.
C5_CompletedAtK ==
    (/\ poll.responses \in 1..MAX_POLLING_ATTEMPTS
     /\ poll.prefixProcessing
     /\ poll.last.ok
     /\ poll.last.status = "completed"
     /\ poll.last.model_info # NoModel) =>
        /\ poll.pc = "returned"
        /\ poll.result = Returned("none", poll.last.model_info)
        /\ poll.queries = poll.responses

C5_QuietAfterReturn == (poll.pc = "returned") => UNCHANGED poll

\* C5: the completing response at query k returns its model_info, and a
\* returned poll never moves again.
C5_ReturnsExactModel == []C5_CompletedAtK /\ [][C5_QuietAfterReturn]_vars

C5_Witness ==
    /\ poll.pc = "returned"
    /\ poll.prefixProcessing
    /\ poll.queries = 3
    /\ poll.result.model = [url |-> "/x.obj", type |-> "undefined", label |-> "L"]

\* C6: a status response "failed" with an error reason makes
\* fetchConvertedModel fail at once with a conversion-failed error that
\* carries that reason, with no further query.
C6_FailedCarriesReason ==
    (/\ poll.responses >= 1
     /\ poll.last.ok
     /\ poll.last.status = "failed"
     /\ poll.last.error # "undefined") =>
        /\ poll.pc = "threw"
        /\ poll.result.kind = "ConversionFailed"
        /\ poll.result.detail = poll.last.error
        /\ poll.queries = poll.responses

\* C7: a non-success status response makes fetchConvertedModel fail with a
\* transport error on that attempt, with no further query; it is never
\* slept on like "processing".
C7_TransportErrorStopsPolling ==
    (poll.responses >= 1 /\ ~poll.last.ok) =>
        /\ poll.pc = "threw"
        /\ poll.result.kind = "TransportError"
        /\ poll.result.http = poll.last.http
        /\ poll.queries = poll.responses

C7_Witness ==
    /\ poll.responses = 3
    /\ ~poll.last.ok
    /\ poll.pc = "threw"
    /\ poll.result.kind = "TransportError"

(***************************************************************************)
(* Claims about whole runs of the page                                     *)
(***************************************************************************)
\* the session is in review with a recorded video and nothing recording
Reviewed ==
    /\ page.stage = "review"
    /\ page.videoBlob # NoBlob
    /\ page.videoBlob.source = "recorded"
    /\ page.recordingStatus = "idle"

\* C8: once a recording has started and the user does not stop it, the
\* countdown stops the recorder and the session reaches stage review with a
\* recorded videoBlob and recordingStatus idle, and no run keeps a recorder
\* recording for ever.  (SpecCountdown: fair intervals, stop events, effects)
C8_RecordingIsCapped == (Recording ~> Reviewed) /\ []<>(~Recording)

\* C9: on the uninterrupted happy path the stage only ever moves locked to
\* record, record to review, review to viewer, and the url, type and label
\* handed to the viewer are those of the model_info of the completing status
\* response.  (SpecHappy)
C9_StageOrder ==
    (page'.stage # page.stage) =>
        <<page.stage, page'.stage>> \in
            {<<"locked", "record">>, <<"record", "review">>, <<"review", "viewer">>}

C9_ModelHandedToViewer ==
    (page.modelUrl # "null") =>
        /\ page.stage = "viewer"
        /\ page.jobModelInfo =
              [url |-> page.modelUrl, type |-> page.modelType, label |-> page.modelLabel]

\* C9: the stage order and the model handed to the viewer, taken together.
C9_HappyPath == []C9_ModelHandedToViewer /\ [][C9_StageOrder]_vars

C9_Witness ==
    /\ page.stage = "viewer"
    /\ ~page.processingResult
    /\ page.jobModelInfo =
          [url |-> "/api/download-result/abc", type |-> "obj", label |-> "Demo"]
    /\ page.modelUrl = "/api/download-result/abc"
    /\ page.modelType = "obj"
    /\ page.modelLabel = "Demo"

\* C10: at most one non-terminal job exists per session: confirm is enabled
\* only when no pipeline is in flight, upload and poll are never in flight
\* together, and once a new recording is held no earlier job is still in
\* flight.  (Spec)
C10_OneLiveJob ==
    /\ ~page.processingResult => /\ page.confirmPc = "idle"
                                 /\ ~UploadInFlight(up)
                                 /\ poll.pc = "idle"
    /\ ~(UploadInFlight(up) /\ poll.pc # "idle")
    /\ (page.jobStale /\ page.videoBlob # NoBlob) => page.confirmPc \notin {"upload", "poll"}

(***************************************************************************)
(* Claims about teardown, the stages and the error paths                   *)
(***************************************************************************)
\* nothing of the session is left running
C11_Released ==
    ~page.mounted =>
        /\ \A id \in RecorderIds : ~page.recorders[id].timer
        /\ poll.pc # "sleeping"
        /\ page.liveStreams = {}

C11_NoQueryAfterTeardown == ~page.mounted => poll'.queries <= poll.queries

\* C11: after the component unmounted, in any state, no countdown interval
\* and no inter-poll delay timer is armed, no further status query is issued
\* for the outstanding job, and no media stream is live.  (SpecTeardown)
C11_TeardownReleasesAll == []C11_Released /\ [][C11_NoQueryAfterTeardown]_vars

StageChanges ==
    { <<"locked", "record">>, <<"record", "review">>, <<"review", "record">>,
      <<"review", "viewer">>, <<"viewer", "record">> }

C12_StageStep == page'.stage # page.stage => <<page.stage, page'.stage>> \in StageChanges

\* C12: every change of stage is one of locked->record, record->review,
\* review->record, review->viewer, viewer->record, under every interleaving
\* of user actions with upload, poll, device-open and recorder-stop events.
\* (Spec)
C12_OnlyListedStageChanges == [][C12_StageStep]_vars

\* C13: whenever the stage is locked, review or viewer and the stage effect
\* has run, no media stream is live and no recorder is recording, also when
\* the stage was left while an openCamera call was suspended.  (Spec)
C13_ReleasedOutsideCapture ==
    (page.stage # "record" /\ ~page.stageEffectDue) =>
        /\ page.liveStreams = {}
        /\ ~Recording

\* a submission of value that is refused
C14_Refused(value) ==
    PasswordSubmitWith(value) =>
        /\ page'.stage = "locked"
        /\ page'.passwordError
        /\ page'.pendingOpens = page.pendingOpens
        /\ page'.isCameraLoading = page.isCameraLoading

C14_ExactStep ==
    /\ (page.stage = "locked" /\ page'.stage # "locked") =>
           PasswordSubmitWith(ACCESS_PASSWORD)
    /\ \A value \in PasswordInputs \ {ACCESS_PASSWORD} : C14_Refused(value)

\* C14: the stage leaves locked only through a password submission whose
\* value is exactly the access secret; a submission with any other value
\* leaves the stage locked, sets the password error and does not request the
\* capture device.  (Spec)
C14_ExactMatchUnlocks == [][C14_ExactStep]_vars

\* the submitted values that equal the secret once surrounding white space
\* is removed
C14_Accepted == {ACCESS_PASSWORD, " 2025jhyw "}

C14_TrimmedStep ==
    /\ (page.stage = "locked" /\ page'.stage # "locked") =>
           \E value \in C14_Accepted : PasswordSubmitWith(value)
    /\ \A value \in PasswordInputs \ C14_Accepted : C14_Refused(value)

\* C14 as amended: the stage leaves locked only through a password
\* submission whose value, with leading and trailing white space removed, is
\* the access secret; a submission with any other value leaves the stage
\* locked, sets the password error and does not request the capture device.
C14_TrimmedMatchUnlocks == [][C14_TrimmedStep]_vars

C14_Witness ==
    /\ page.stage = "locked"
    /\ page.passwordError
    /\ page.pendingOpens = 0
    /\ page.liveStreams = {}
    /\ secureContext /\ hasGetUserMedia

\* an event that is not an action of the user
BrowserEvent ==
    \/ GetUserMediaResolves
    \/ GetUserMediaRejects
    \/ AutoStartTimeout
    \/ Countdown
    \/ RecorderStopEvent
    \/ StageEffect
    \/ ToastExpires

\* a selected file is under review
C15_FileHeld == page.stage = "review" /\ page.videoSource = "uploaded"

C15_Step ==
    /\ \A file \in SelectedFiles :
          FileSelectWith(file) =>
              IF file.kind = "video"
              THEN /\ page'.stage = "review"
                   /\ page'.videoBlob = [source |-> "uploaded", size |-> file.size]
                   /\ page'.videoSource = "uploaded"
                   /\ page'.liveStreams = {}
              ELSE /\ page'.stage = page.stage
                   /\ page'.videoBlob = page.videoBlob
                   /\ file.kind = "other" => page'.toast = "error"
    /\ (C15_FileHeld /\ BrowserEvent) =>
          /\ page'.stage = "review"
          /\ page'.videoBlob = page.videoBlob
          /\ page'.videoSource = "uploaded"
          /\ page'.liveStreams = {}

\* C15: a video file selected in the capture stage, with the camera idle,
\* an openCamera call pending or a recording in progress, puts the session in
\* stage review holding exactly that file with provenance "uploaded" and
\* the stream released, and the events still outstanding leave it so; a
\* file that is not a video leaves stage and videoBlob unchanged and raises
\* an error notice.  (SpecCapture)
C15_FileSelectSettles == [][C15_Step]_vars

\* the step delivers a failure of uploadVideo or fetchConvertedModel to
\* handleConfirm
JobFails ==
    \/ /\ ClickConfirm
       /\ page.videoBlob # NoBlob
       /\ UploadVideoEnter(page.videoBlob).pc = "threw"
    \/ \E ok \in BOOLEAN, h \in HttpErrors, id \in JobIds :
          /\ UploadResponseWith(ok, IF ok THEN 200 ELSE h, id)
          /\ UploadVideoResume(up, ok, IF ok THEN 200 ELSE h, id).pc = "threw"
    \/ \E r \in StatusResponses :
          /\ StatusResponseWith(r)
          /\ FetchConvertedModelResponse(poll, r).pc = "threw"
    \/ /\ PollDelay
       /\ FetchConvertedModelWake(poll).pc = "threw"

\* handleConfirm has returned and the session is back in capture
C16_BackInCapture ==
    /\ page.confirmPc = "idle"
    /\ page.stage = "record"
    /\ page.recordingStatus = "idle"
    /\ ~page.processingResult
    /\ ~page.modelLoading
    /\ page.videoBlob = NoBlob

C16_Step ==
    /\ JobFails =>
          /\ up' = IdleUpload /\ poll' = IdlePoll
          /\ page'.toast = "error"
          /\ IF OpenCameraAwaits
             THEN page'.confirmPc = "recover" /\ page'.stage = "record"
             ELSE C16_BackInCapture'
    /\ GetUserMediaSettlesInConfirm =>
          /\ C16_BackInCapture'
          /\ page'.liveStreams # page.liveStreams =>
                 page'.mediaStreamRef \in page'.liveStreams

\* C16: when the upload or the poll of a confirmed job fails (empty
\* artifact, transport error, conversion failed, timeout), no request of the
\* job stays outstanding, an error notice is shown, and handleConfirm ends
\* with stage record, the stream re-acquired when getUserMedia succeeds,
\* recordingStatus idle, processingResult false, modelLoading false and
\* videoBlob null.  (SpecJob)
C16_FailureReturnsToCapture == [][C16_Step]_vars

\* the step in which an openCamera call returns false
OpenFails ==
    \/ /\ ~OpenCameraAwaits
       /\ \/ \E value \in PasswordInputs :
                Trim(value) = ACCESS_PASSWORD /\ PasswordSubmitWith(value)
          \/ ReviewReset
          \/ BackToRecording
          \/ JobFails
    \/ GetUserMediaRejects
    \/ GetUserMediaSettlesInConfirm /\ page'.liveStreams = page.liveStreams

\* the capture stage without a camera: the file input of the capture stage
\* is the way on
C17_Degraded ==
    /\ page.stage = "record"
    /\ page.toast # "none"
    /\ page.mediaStreamRef = 0
    /\ page.mediaStream = 0
    /\ ~page.isCameraLoading

\* C17: for each failure of openCamera (insecure context, no capture API,
\* permission denied, no camera, other error), when openCamera returns the
\* stage is record, a notice is shown, no stream is held, isCameraLoading is
\* false, and the file input of the capture stage is available.  (Spec)
C17_OpenFailureDegrades == [][OpenFails => C17_Degraded']_vars

\* C18: for each model shown in the viewer the onLoaded callback passed by
\* the page is invoked once; renders of the page, caused by the toast the
\* callback raises or by its expiry, do not invoke it again.  (SpecHappy)
C18_LoadedOnce == page.loadedCalls <= 1

(***************************************************************************)
(* Claims about uploadVideo and the review buttons                         *)
(***************************************************************************)
\* the requests of a complete upload, and the step each belongs to
UploadRequests ==
    IF variant = "presigned"
    THEN <<"POST /api/upload-url", "PUT uploadUrl", "POST /api/start-conversion">>
    ELSE <<"POST /api/upload">>

UploadSteps ==
    IF variant = "presigned"
    THEN <<"upload-url", "put", "start-conversion">>
    ELSE <<"upload">>

\* C19: uploadVideo issues its requests in step order and each at most once;
\* a non-success response at a step makes it fail at that step with an
\* error that names the step and carries the HTTP status, and no request of
\* a later step is issued.  (SpecApi)
C19_StepsInOrderNoRetry ==
    /\ Len(up.requests) <= Len(UploadRequests)
    /\ up.requests = SubSeq(UploadRequests, 1, Len(up.requests))
    /\ (up.pc = "threw" /\ up.result.kind = "TransportError") =>
          /\ Len(up.requests) >= 1
          /\ up.result.step = UploadSteps[Len(up.requests)]
          /\ up.result.http \in HttpErrors

\* recorders that start recording in this step
C20_Started ==
    {id \in RecorderIds : /\ page.recorders[id].state # "recording"
                          /\ page'.recorders[id].state = "recording"}

\* auto-starts requested by openCamera(true) or armed as a timeout
C20_Armed == (IF page.autoStartRef THEN 1 ELSE 0) + page.autoStartTimers

C20_AfterReset ==
    /\ page.lastReset = "cancel" =>
          /\ page.stage = "record"
          /\ C20_Armed = 0
    /\ page.lastReset = "retry" =>
          /\ page.stage = "record"
          /\ C20_Armed <= 1

C20_Step ==
    /\ ReviewReset =>
          /\ page'.stage = "record"
          /\ page'.videoBlob = NoBlob
          /\ page'.videoSource = "null"
          /\ page'.recordingStatus = "idle"
          /\ C20_Started = {}
          /\ page'.autoStartRef <=> (page'.lastReset = "retry")
          /\ page'.autoStartTimers = 0
    \* after cancel a recorder is created by the start button only
    /\ (page.lastReset = "cancel" /\ C20_Started # {}) => ClickStartRecording
    \* after retry the acquired device arms the start, and the start records
    /\ (page.lastReset = "retry" /\ page.autoStartRef /\ GetUserMediaResolves) =>
          /\ page'.autoStartTimers = 1
          /\ ~page'.autoStartRef
    /\ (page.lastReset = "retry" /\ AutoStartTimeout) =>
          /\ C20_Armed' = 0
          /\ \/ /\ C20_Started = {page'.recorderRef}
                /\ page'.recordingStatus = "recording"
                /\ page'.timerRef = page'.recorderRef
                /\ page'.recorders[page'.recorderRef].timer
             \/ /\ C20_Started = {}
                /\ page'.toast = "error"
    /\ (page.lastReset = "retry" /\ C20_Started # {}) =>
          AutoStartTimeout \/ ClickStartRecording

\* C20: from review, cancel returns to stage record with the recording
\* discarded, no auto-start armed and no recorder started except by the
\* start button; retry returns to stage record with one auto-start armed
\* and, once getUserMedia resolved, the auto-start timeout starts the
\* recording with no user action and once: one recorder, holding the one
\* countdown interval.  (SpecCapture)
C20_CancelAndRetry == []C20_AfterReset /\ [][C20_Step]_vars

(***************************************************************************)
(* Claims about the sequencing of confirm, and about the recorder          *)
(***************************************************************************)
\* while handleConfirm awaits uploadVideo, and while it awaits
\* fetchConvertedModel
C21_Sequenced ==
    /\ page.confirmPc = "upload" =>
          /\ UploadInFlight(up)
          /\ poll = IdlePoll
    /\ page.confirmPc = "poll" =>
          /\ up = IdleUpload
          /\ poll.queries >= 1
    /\ poll.pc # "idle" => page.confirmPc = "poll"

C21_StaysReview == page.confirmPc = "upload" => page.stage = "review"

C21_Step ==
    \* the step in which uploadVideo returns the job id
    /\ (page.confirmPc = "upload" /\ page'.confirmPc = "poll") =>
          /\ page'.stage = "viewer"
          /\ poll.queries = 0
          /\ poll'.queries = 1
          /\ poll'.uploadId \in JobIds
    \* no other step enters the viewer
    /\ (page.stage # "viewer" /\ page'.stage = "viewer") =>
          /\ page.confirmPc = "upload"
          /\ UploadResponse

\* C21: after confirm the stage stays review while the upload is in flight
\* and becomes viewer in the step in which the upload returns the job id,
\* when no status query has been issued; the first status query is issued
\* only after the upload has completed.  (SpecJob)
C21_ViewerWhenUploaded == []C21_Sequenced /\ []C21_StaysReview /\ [][C21_Step]_vars

\* a call of handleStartRecording: the start button or the auto-start timeout
C22_StartCalled == ClickStartRecording \/ AutoStartTimeout

C22_Step ==
    /\ (C22_StartCalled /\ page.mediaStreamRef = 0) =>
          /\ page'.toast = "error"
          /\ page'.recorders = page.recorders
          /\ page'.recorderRef = page.recorderRef
          /\ page'.timerRef = page.timerRef
          /\ page'.recordingStatus = page.recordingStatus
          /\ page'.elapsedMs = page.elapsedMs
          /\ page'.videoBlob = page.videoBlob
    /\ (C22_StartCalled /\ page.mediaStreamRef # 0) =>
          /\ page'.elapsedMs = 0
          /\ page'.recordingStatus = "recording"
          /\ page'.recorderRef # 0
          /\ page'.recorders[page'.recorderRef].state = "recording"
          /\ page'.recorders[page'.recorderRef].stream = page.mediaStreamRef
          /\ page'.timerRef = page'.recorderRef
          /\ page'.recorders[page'.timerRef].timer

\* C22: handleStartRecording with no stream held raises the error notice,
\* creates no recorder, arms no countdown and leaves recordingStatus,
\* elapsedMs and videoBlob unchanged; with a stream held it sets elapsedMs to
\* 0 and recordingStatus to recording, and a recorder records the stream with
\* its countdown interval armed.  (SpecCapture)
C22_StartRecording == [][C22_Step]_vars

\* a recorder was stopped and its stop event is not yet delivered
C23_Stopped == \E id \in RecorderIds : page.recorders[id].state = "stopping"

\* the recording is under review and the device is released
C23_Settled ==
    /\ page.recordingStatus = "idle"
    /\ page.timerRef = 0
    /\ \A id \in RecorderIds : ~page.recorders[id].timer
    /\ page.videoBlob # NoBlob
    /\ page.videoBlob.source = "recorded"
    /\ page.videoSource = "recorded"
    /\ page.stage = "review"
    /\ ~page.stageEffectDue
    /\ page.mediaStreamRef = 0
    /\ page.liveStreams = {}

\* the stop button while recorderRef holds no recorder that is recording
C23_IdleStop ==
    (/\ ClickStopRecording
     /\ ~(page.recorderRef # 0 /\ page.recorders[page.recorderRef].state = "recording"))
        => page' = page

\* C23: a recording stopped by the stop button or by the countdown leads to
\* recordingStatus idle, no countdown interval armed, a videoBlob with
\* provenance "recorded", stage review and the stream released; the stop
\* button pressed when no recorder is recording changes nothing.  (SpecStop:
\* fair intervals, stop events and effects)
C23_StopSettles == (C23_Stopped ~> C23_Settled) /\ [][C23_IdleStop]_vars

(***************************************************************************)
(* Claims about stopStream and the restart button                          *)
(***************************************************************************)
\* what holds of q, the state after stopStream was called in state p
C24_Released(p, q) ==
    /\ q.timerRef = 0
    /\ p.timerRef # 0 => ~q.recorders[p.timerRef].timer
    /\ q.recorderRef = 0
    /\ p.recorderRef # 0 => q.recorders[p.recorderRef].state # "recording"
    /\ q.mediaStreamRef = 0
    /\ q.mediaStream = 0
    /\ p.mediaStreamRef # 0 => p.mediaStreamRef \notin q.liveStreams

\* stopStream called in the current state, once and twice
C24_Idempotent ==
    /\ StopStream(StopStream(page)) = StopStream(page)
    /\ C24_Released(page, StopStream(page))

\* the calls of stopStream that are steps of their own: the stage effect in
\* a stage that is not record
C24_Step ==
    (StageEffect /\ page.stage # "record") =>
        /\ C24_Released(page, page')
        /\ StopStream(page') = page'

C25_Step ==
    BackToRecording =>
        /\ page'.modelUrl = "null"
        /\ ~page'.modelLoading
        /\ page'.stage = "record"
        /\ page'.videoBlob = NoBlob
        /\ page'.recordingStatus = "idle"
        \* a fresh open: nothing held, getUserMedia requested
        /\ page'.mediaStreamRef = 0
        /\ OpenCameraAwaits => /\ page'.pendingOpens = page.pendingOpens + 1
                               /\ page'.isCameraLoading
        \* no recording started, and none that will start by itself
        /\ C20_Started = {}
        /\ ~page'.autoStartRef
        /\ page'.autoStartTimers = 0

\* C25: the restart button of the viewer sets modelUrl to null and
\* modelLoading to false and puts the session in stage record with a new
\* openCamera call (nothing held, getUserMedia requested), no recorder
\* started and no auto-start requested or armed.  (SpecJob)
C25_RestartReturnsToCapture == [][C25_Step]_vars

(***************************************************************************)
(* Claims about the status queries and the countdown                       *)
(***************************************************************************)
\* status queries issued and not yet answered
C26_InFlight == poll.queries - poll.responses

C26_OneQuery ==
    /\ C26_InFlight \in {0, 1}
    /\ C26_InFlight = 1 <=> poll.pc = "fetching"

C26_Step ==
    \* a query is issued by a new call, or after the delay that followed the
    \* response to the previous one
    /\ poll'.queries > poll.queries =>
          /\ poll'.queries = poll.queries + 1
          /\ C26_InFlight = 0
          /\ \/ poll.pc = "sleeping" /\ PollDelay
             \/ poll.pc = "idle" /\ UploadResponse
    \* fetchConvertedModel is called only when no call of it is active
    /\ (page.confirmPc # "poll" /\ page'.confirmPc = "poll") => poll = IdlePoll
    /\ (UploadResponse /\ poll.pc # "idle") => poll' = poll

\* C26: at most one status query is in flight at any instant of the session:
\* within a fetchConvertedModel call a query is issued only after the
\* response to the previous one was received and the delay elapsed, and
\* fetchConvertedModel is never called while an earlier call is active.
\* (Spec)
C26_OneQueryInFlight == []C26_OneQuery /\ [][C26_Step]_vars

C26_Witness ==
    /\ poll.pc = "fetching"
    /\ poll.queries = 2
    /\ poll.responses = 1
    /\ page.jobStale
    /\ page.stage = "review"
    /\ page.videoBlob # NoBlob
    /\ page.processingResult

\* C27: in every reachable state 0 <= elapsedMs <= MAX_DURATION_MS, under
\* every interleaving of countdown ticks, starts, stops and openCamera
\* calls; a tick that arrives when the ceiling is reached leaves elapsedMs at
\* the ceiling.  (SpecCountdown)
C27_ElapsedBounded == page.elapsedMs \in 0..MAX_DURATION_MS

C27_Witness ==
    /\ page.elapsedMs = MAX_DURATION_MS
    /\ \E id \in RecorderIds : /\ page.recorders[id].timer
                               /\ page.recorders[id].state = "stopping"

(***************************************************************************)
(* Claims about the static file route                                      *)
(***************************************************************************)
\* C28: the static file route never serves a file outside the project root:
\* for every slug, names ".." and paths into a sibling directory whose name
\* begins with the name of the project root included, the response is 400,
\* 403 or 404, or the file served lies inside the project root.
\* (SpecStatic)
C28_ServedInsideRoot ==
    route.pc = "answered" =>
        \/ route.status \in {400, 403, 404}
        \/ /\ route.status = 200
           /\ InsideRoot(route.served, route.root)

(***************************************************************************)
(* Claims about the recording under review and the recorders               *)
(***************************************************************************)
\* C29: in every reachable state in which the stage is review a recording
\* is held, videoBlob is not null, so that confirm in review has an artifact
\* to submit.  (SpecCapture)
C29_ReviewHoldsRecording == page.stage = "review" => page.videoBlob # NoBlob

\* C30: in every reachable state at most one recorder is recording and at
\* most one countdown interval is armed, and an armed interval is the one
\* held in timerRef, also when the start button races with the 50 ms
\* auto-start timeout or is pressed while a recorder is active.
\* (SpecCapture)
C30_OneRecorderOneCountdown ==
    /\ Cardinality({id \in RecorderIds : page.recorders[id].state = "recording"}) <= 1
    /\ Cardinality({id \in RecorderIds : page.recorders[id].timer}) <= 1
    /\ \A id \in RecorderIds : page.recorders[id].timer => page.timerRef = id

(***************************************************************************)
(* Claims about recordingStatus, the displayed model and processingResult  *)
(***************************************************************************)
\* a recorder of the page is recording
C31_Recording(p) == \E id \in RecorderIds : p.recorders[id].state = "recording"

\* a recorder of the page is recording, or was stopped and its stop event
\* has not been delivered yet
C31_Started(p) == \E id \in RecorderIds : p.recorders[id].state # "inactive"

C31_StatusMatches ==
    /\ C31_Recording(page) => page.recordingStatus = "recording"
    /\ page.recordingStatus = "recording" => C31_Started(page)

\* a step in which the finally block of handleConfirm runs
C31_FinallyRuns == page.confirmPc # "idle" /\ page'.confirmPc = "idle"

C31_Step == (C31_FinallyRuns /\ C31_Recording(page')) => page'.recordingStatus # "idle"

\* C31: in every reachable state recordingStatus is "recording" while a
\* recorder is recording, and only while a recorder is recording or waits for
\* its stop event; no step in which the finally block of handleConfirm runs
\* leaves recordingStatus idle while a recorder is recording.  (Spec)
C31_StatusIsRecorder == []C31_StatusMatches /\ [][C31_Step]_vars

\* a model is displayed: the viewer is mounted with a model to load
C32_Displayed == page.stage = "viewer" /\ page.modelUrl # "null"

\* a submitted job has not settled yet
C32_Converting == page.confirmPc \in {"upload", "poll"}

\* C32: whenever the stage is viewer and modelUrl is non-null, the model
\* held in modelUrl, modelType and modelLabel was resolved for the job that
\* was submitted last, and no model is displayed while a job submitted after
\* it is still converting.  (Spec)
C32_DisplayedModelIsLatest ==
    C32_Displayed => (page.modelOfLastJob /\ ~C32_Converting)

\* a confirm pipeline is in flight: its upload, its poll (a status query or
\* the delay between two), or the openCamera call its catch block awaits
C33_InFlight ==
    \/ UploadInFlight(up)
    \/ poll.pc \in {"fetching", "sleeping"}
    \/ page.confirmPc = "recover"

C33_Disabled == page.processingResult <=> C33_InFlight

\* the ways a pipeline leaves an await
C33_Success == page.confirmPc = "poll" /\ page'.modelOfLastJob /\ ~page.modelOfLastJob
C33_Recovered == page.confirmPc = "recover" /\ page'.confirmPc = "idle"

C33_Step ==
    \* processingResult is set by an enabled confirm button only
    /\ (~page.processingResult /\ page'.processingResult) =>
          /\ page.stage = "review"
          /\ page.videoBlob # NoBlob
    \* and cleared when the model arrived, or when the upload or the poll
    \* failed (a transport error, a failed job, the timeout) and the camera
    \* request of the recovery settled or was not needed
    /\ (page.processingResult /\ ~page'.processingResult) =>
          /\ ~C33_InFlight'
          /\ \/ C33_Success
             \/ C33_Recovered
             \/ (page.confirmPc \in {"upload", "poll"} /\ ~OpenCameraAwaits
                    /\ page'.stage \in {"locked", "record"})
    /\ C33_Success => ~page'.processingResult
    /\ C33_Recovered => ~page'.processingResult
    \* a failure starts the recovery or, when openCamera does not await,
    \* ends the pipeline
    /\ (page.confirmPc \in {"upload", "poll"} /\ page'.confirmPc = "recover") =>
          (OpenCameraAwaits /\ page'.processingResult)

\* C33: in every reachable state processingResult is true exactly when a
\* confirm pipeline (upload, poll, or the camera request of its failure
\* recovery) is in flight; the confirm button sets it only when enabled, and
\* every outcome of the pipeline (success, upload failure, poll failure,
\* timeout) clears it when the pipeline ends.  (Spec)
C33_DisabledWhileInFlight == []C33_Disabled /\ [][C33_Step]_vars

\* a job has completed and the confirm button is enabled again in review,
\* after a later recording
C33_Witness ==
    /\ page.modelOfLastJob
    /\ ~page.processingResult
    /\ page.stage = "review"
    /\ page.videoBlob # NoBlob

====
